---- MODULE Spec2Model ----
(***************************************************************************)
(* Model of the MPC controller of handful-of-trials-pytorch                *)
(* (src/controller.py): construction, train_initial, train_iteration, act, *)
(* the trajectory scorer _compile_score, the bootstrap reshapes and the    *)
(* early-stopped training loop.                                            *)
(***************************************************************************)
EXTENDS Integers, Sequences, FiniteSets, TLC

(***************************************************************************)
(* Bounds of the model.                                                    *)
(***************************************************************************)
\* particle counts and ensemble sizes offered to the constructor: 1..MaxPart
MaxPart == 2
\* number of trajectories in an obs / acts list given to a training call
MaxTraj == 2
\* training calls (train_initial, train_iteration) made on one controller
MaxTrainCalls == 2
\* planning calls of act counted before the counters saturate
MaxPlans == 1
\* particle counts offered to the reshapes
MaxShapePart == 4
\* particle groups (candidate plans) in a reshaped batch
MaxGroups == 2
\* features per row of a reshaped batch
MaxFeat == 2
\* reshapes applied in a row to one tensor
MaxShapeOps == 2
\* starting observations scored at once (num_obs)
MaxObs == 2
\* candidate plans per observation (num_plans)
MaxCand == 3
\* particle counts of the controllers that score plans
MaxScorePart == 4
\* planning horizon (plan_hor)
MaxHor == 3
\* candidate plans whose particles fit in one chunk (batch_size / num_part)
MaxChunkGroups == 2
\* candidates scored by one _compile_score call: num_obs * num_plans
MaxCandidates == 3
\* actions of the expanded plans of _compile_score:
\* num_obs * num_plans * num_part * plan_hor
MaxPlanActions == 24
\* rows of the dataset train_initial trains on (len(dataset))
MaxData == 3
\* ensemble sizes of the controllers that are trained
MaxTrainNets == 2
\* batches_per_epoch
MaxBatches == 3
\* entries of the index matrix idxs: ensemble size times dataset rows
MaxIdxCells == 6
\* largest value of an epoch's mean validation cross-entropy, in metric units
MaxMetric == 2

\* env.action_space.high[0], in action units
ActBound == 1
\* CEM iterations per obtain_solution call: opt_cfg.iterations
Iterations == 5
\* EarlyStopping(patience=20)
Patience == 20
\* epochs after which a training loop that is still running is left where it is: one
\* more than a metric of MaxMetric + 1 values allows (each value can hold the loop for
\* Patience epochs)
MaxEpochs == (MaxMetric + 1) * Patience + 2

VARIABLES
    phase,            \* "none": MPC() not yet called, "failed": __init__ raised, "ready": object exists
    num_part,         \* self.num_part
    num_nets,         \* self.num_nets
    optimizer,        \* TRUE once CEMOptimizer(...) was constructed
    model,            \* TRUE once BootstrapEnsemble(...) was constructed
    has_been_trained, \* self.has_been_trained
    hasData,          \* TRUE once the attributes self.X, self.Y exist
    X,                \* self.X: one entry per row, the id of the call that supplied it
    Y,                \* self.Y
    stats,            \* the ensemble's NormalizationStats: the input set they were fitted on
    modelVer,         \* number of training calls that changed the ensemble's parameters
    calls,            \* ensemble calls made by the last operation, each with the stats and X it saw
    ret,              \* what the last operation returned or that it raised
    op,               \* name of the last operation
    nTrain,           \* training calls made so far (ids of the supplied data)
    n_obtain,         \* calls of optimizer.obtain_solution
    n_score,          \* calls of _compile_score
    initOK,           \* history: some train_initial call has returned normally
    raised,           \* history: some training call has raised
    raisedPrev,       \* history: the value of raised before the last operation
    prevRows,         \* history: rows of X and of Y before the last training call
    act_bound,        \* self.act_bound
    \* -- the bootstrap reshapes applied to one tensor
    tin,              \* the tensor given first
    tprev,            \* the tensor before the last reshape
    tout,             \* the tensor after the reshapes applied so far
    ops,              \* the reshapes applied so far, "to" or "from"
    \* -- one call of _compile_score
    sargs,            \* its arguments and the task's hooks
    spc,              \* its position: "begin", "chunk", "step", "finish", "done"
    dataset,          \* TensorDataset(obs, plans): per flat row its observation and plan
    scores,           \* scores, one per flat row
    chunk,            \* index i of the current chunk
    step,             \* step t of the horizon loop
    obs,              \* observations of the chunk's particles
    chunkPlans,       \* plans of the chunk's particles
    alives,           \* alive mask of the chunk's particles
    first,            \* history: reward and done flag of every flat row at step 0
    result,           \* the matrix returned: per observation and plan the mean score
    \* -- the training loop of one train_initial call
    targs,            \* dataset size, batches_per_epoch, train_split, the metrics the epochs can yield
    tpc,              \* its position: "begin", "loop", "end", "done"
    train_idxs,       \* per member, the indices of its training partition
    val_idxs,         \* per member, the indices of its validation partition
    epoch,            \* epoch
    early_stopping,   \* the EarlyStopping object
    params,           \* the ensemble's parameters: the epoch whose updates produced them
    updBatches,       \* the index minibatches given to update in the last epoch
    valBatches,       \* the index minibatches given to evaluate_val in the last epoch
    seen,             \* history: the least metric so far and the epoch that first reached it
    out               \* what train_initial returned: restored parameters, time/train_epochs

ctlVars == <<phase, num_part, num_nets, optimizer, model, has_been_trained, hasData,
             X, Y, stats, modelVer, calls, ret, op, nTrain, n_obtain, n_score,
             initOK, raised, raisedPrev, prevRows, act_bound>>

shapeVars == <<tin, tprev, tout, ops>>

scoreVars == <<sargs, spc, dataset, scores, chunk, step, obs, chunkPlans, alives, first, result>>

trainVars == <<targs, tpc, train_idxs, val_idxs, epoch, early_stopping, params,
               updBatches, valBatches, seen, out>>

vars == <<ctlVars, shapeVars, scoreVars, trainVars>>

\* what the operations of one part of the controller leave alone
nonCtl == <<shapeVars, scoreVars, trainVars>>
nonShape == <<ctlVars, scoreVars, trainVars>>
nonScore == <<ctlVars, shapeVars, trainVars>>
nonTrain == <<ctlVars, shapeVars, scoreVars>>

Min(a, b) == IF a <= b THEN a ELSE b

\* a tensor of n rows all supplied by call id
RowsOf(id, n) == [i \in 1..n |-> id]

NoRet == [kind |-> "none", ok |-> TRUE, action |-> 0, info |-> "none", planned |-> FALSE]
Raise(k) == [kind |-> k, ok |-> FALSE, action |-> 0, info |-> "none", planned |-> FALSE]
Return(k) == [kind |-> k, ok |-> TRUE, action |-> 0, info |-> "metrics", planned |-> FALSE]

\* stats of a freshly constructed ensemble: fitted on nothing
NoStats == [fitted |-> FALSE, on |-> <<>>]

\* BootstrapEnsemble.fit_input_stats(X): recompute and overwrite the stats from X
fit_input_stats(x) == [fitted |-> TRUE, on |-> x]

\* one ensemble call as the controller makes it
Call(o, s, x) == [op |-> o, stats |-> s, X |-> x]

(***************************************************************************)
(* MPC.__init__                                                            *)
(***************************************************************************)
CheckArgumentsNone(np, nn) == TRUE

\* assert self.num_part % self.num_nets == 0
CheckArguments(np, nn) == np % nn = 0

MPC_init(np, nn) ==
    /\ phase = "none"
    /\ num_part' = np
    /\ num_nets' = nn
    /\ act_bound' = ActBound
    /\ has_been_trained' = FALSE
    /\ IF CheckArguments(np, nn)
       THEN /\ optimizer' = TRUE
            /\ model' = TRUE
            /\ phase' = "ready"
            /\ ret' = Return("init")
       ELSE /\ optimizer' = FALSE
            /\ model' = FALSE
            /\ phase' = "failed"
            /\ ret' = Raise("init")
    /\ op' = "init"
    /\ UNCHANGED <<hasData, X, Y, stats, modelVer, calls, nTrain, n_obtain, n_score,
                   initOK, raised, raisedPrev, prevRows>>
    /\ UNCHANGED nonCtl

(***************************************************************************)
(* MPC._preprocess_train_data                                              *)
(*   obs  : nObs arrays of two observations each (one transition)          *)
(*   acts : nActs arrays of one action each                                *)
(* A hook that raises, or an action array whose row count differs from its *)
(* observation array's, makes the list comprehension raise: fail = "hook". *)
(***************************************************************************)
TrainInputs == [nObs : 0..MaxTraj, nActs : 0..MaxTraj]

preprocess_train_data(in) ==
    LET pairs == Min(in.nObs, in.nActs)      \* zip(obs, acts) stops at the shorter list
    IN  [ok |-> pairs > 0,                   \* np.concatenate of an empty list raises
         xrows |-> pairs,                    \* one row of X per zipped pair
         yrows |-> in.nObs]                  \* one row of Y per observation array

(***************************************************************************)
(* MPC.train_initial                                                       *)
(***************************************************************************)
TrainInitialFails == {"none", "hook", "fit", "loop"}

\* line 89: the flag is set on entry, whatever happens later in the call
FlagAtEntry(done) == TRUE

train_initial(in, fail) ==
    LET id == nTrain + 1
        pre == preprocess_train_data(in)
        newX == RowsOf(id, pre.xrows)
        newY == RowsOf(id, pre.yrows)
        stored == fail # "hook" /\ pre.ok
        fitted == stored /\ fail # "fit"
        \* TensorDataset(self.X, self.Y) asserts equal first dimensions
        sized == fitted /\ pre.xrows = pre.yrows
        done == sized /\ fail # "loop"
        st == IF fitted THEN fit_input_stats(newX) ELSE stats
    IN  /\ phase = "ready"
        /\ nTrain < MaxTrainCalls
        /\ nTrain' = id
        /\ op' = "train_initial"
        /\ prevRows' = <<Len(X), Len(Y)>>
        /\ has_been_trained' = (has_been_trained \/ FlagAtEntry(done))
        /\ hasData' = (hasData \/ stored)
        /\ X' = IF stored THEN newX ELSE X
        /\ Y' = IF stored THEN newY ELSE Y
        /\ stats' = st
        /\ calls' = IF ~sized THEN <<>>
                    ELSE IF fail = "loop" THEN <<Call("update", st, newX)>>
                    ELSE <<Call("update", st, newX), Call("evaluate_val", st, newX)>>
        /\ modelVer' = IF sized THEN modelVer + 1 ELSE modelVer
        /\ ret' = IF done THEN Return("train_initial") ELSE Raise("train_initial")
        /\ initOK' = (initOK \/ done)
        /\ raised' = (raised \/ ~done)
        /\ raisedPrev' = raised
        /\ UNCHANGED <<phase, num_part, num_nets, act_bound, optimizer, model, n_obtain, n_score>>
        /\ UNCHANGED nonCtl

(***************************************************************************)
(* MPC.train_iteration                                                     *)
(***************************************************************************)
TrainIterationFails == {"none", "hook", "test", "fit", "loop"}

AppendRowsOverwrite(old, new) == new

\* line 171: torch.cat((self.X, X_new)), torch.cat((self.Y, Y_new))
AppendRows(old, new) == old \o new

FitInputNewOnly(all, new) == new

\* line 179: self.model.fit_input_stats(self.X), the whole enlarged input set
FitInput(all, new) == all

HasDatasetAlways(has) == TRUE

\* line 171 reads self.X and self.Y, which only line 92 of train_initial creates
HasDataset(has) == has

train_iteration(in, fail) ==
    LET id == nTrain + 1
        pre == preprocess_train_data(in)
        X_new == RowsOf(id, pre.xrows)
        Y_new == RowsOf(id, pre.yrows)
        \* self.X is read on line 171: AttributeError when train_initial never stored it
        stored == fail # "hook" /\ pre.ok /\ HasDataset(hasData)
        allX == AppendRows(X, X_new)
        allY == AppendRows(Y, Y_new)
        tested == stored /\ fail # "test"
        fitted == tested /\ fail # "fit"
        \* TensorDataset(self.X, self.Y) asserts equal first dimensions
        sized == fitted /\ Len(allX) = Len(allY)
        done == sized /\ fail # "loop"
        st == IF fitted THEN fit_input_stats(FitInput(allX, X_new)) ELSE stats
    IN  /\ phase = "ready"
        /\ nTrain < MaxTrainCalls
        /\ nTrain' = id
        /\ op' = "train_iteration"
        /\ prevRows' = <<Len(X), Len(Y)>>
        /\ X' = IF stored THEN allX ELSE X
        /\ Y' = IF stored THEN allY ELSE Y
        /\ stats' = st
        /\ calls' = (IF stored THEN <<Call("evaluate_test", stats, allX)>> ELSE <<>>)
                     \o (IF sized THEN <<Call("update", st, allX)>> ELSE <<>>)
        /\ modelVer' = IF sized THEN modelVer + 1 ELSE modelVer
        /\ ret' = IF done THEN Return("train_iteration") ELSE Raise("train_iteration")
        /\ raised' = (raised \/ ~done)
        /\ raisedPrev' = raised
        /\ UNCHANGED <<phase, num_part, num_nets, act_bound, optimizer, model, has_been_trained,
                       hasData, n_obtain, n_score, initOK>>
        /\ UNCHANGED nonCtl

(***************************************************************************)
(* MPC.act, MPC.act_parallel                                               *)
(***************************************************************************)
ShouldPlanAlways(trained) == TRUE

\* line 229: if not self.has_been_trained: return a random action
ShouldPlan(trained) == trained

\* np.random.uniform(-self.act_bound, self.act_bound), in action units
RandomAction(bound) == (0 - bound)..bound

\* CEMOptimizer.obtain_solution: the first action of the final belief mean, the mean of
\* candidates clipped to the action space
PlannedAction(bound) == (0 - bound)..bound

act ==
    /\ phase = "ready"
    /\ op' = "act"
    /\ IF ~ShouldPlan(has_been_trained)
       THEN /\ \E a \in RandomAction(act_bound) :
                  ret' = [kind |-> "act", ok |-> TRUE, action |-> a, info |-> "empty",
                          planned |-> FALSE]
            /\ calls' = <<>>
            /\ UNCHANGED <<n_obtain, n_score>>
       ELSE /\ n_obtain < MaxPlans
            \* act_parallel: obtain_solution scores the candidates once per CEM iteration,
            \* and every score propagates particles through model.sample
            /\ n_obtain' = n_obtain + 1
            /\ n_score' = n_score + Iterations
            /\ calls' = <<Call("sample", stats, X)>>
            /\ \E a \in PlannedAction(act_bound) :
                  ret' = [kind |-> "act", ok |-> TRUE, action |-> a, info |-> "particle",
                          planned |-> TRUE]
    /\ raisedPrev' = raised
    /\ UNCHANGED <<phase, num_part, num_nets, act_bound, optimizer, model, has_been_trained, hasData,
                   X, Y, stats, modelVer, nTrain, initOK, raised, prevRows>>
    /\ UNCHANGED nonCtl

(***************************************************************************)
(* States of the controller used as starting points.                       *)
(***************************************************************************)
\* before MPC(args) is called
NoController ==
    /\ phase = "none"
    /\ num_part = 0
    /\ num_nets = 0
    /\ optimizer = FALSE
    /\ model = FALSE
    /\ has_been_trained = FALSE
    /\ hasData = FALSE
    /\ X = <<>>
    /\ Y = <<>>
    /\ stats = NoStats
    /\ modelVer = 0
    /\ calls = <<>>
    /\ ret = NoRet
    /\ op = "none"
    /\ nTrain = 0
    /\ n_obtain = 0
    /\ n_score = 0
    /\ initOK = FALSE
    /\ raised = FALSE
    /\ raisedPrev = FALSE
    /\ prevRows = <<0, 0>>
    /\ act_bound = 0

\* the object MPC(args) returns for np particles and nn ensemble members
Constructed(np, nn) ==
    /\ CheckArguments(np, nn)
    /\ phase = "ready"
    /\ num_part = np
    /\ num_nets = nn
    /\ optimizer = TRUE
    /\ model = TRUE
    /\ has_been_trained = FALSE
    /\ hasData = FALSE
    /\ X = <<>>
    /\ Y = <<>>
    /\ stats = NoStats
    /\ modelVer = 0
    /\ calls = <<>>
    /\ ret = Return("init")
    /\ op = "init"
    /\ nTrain = 0
    /\ n_obtain = 0
    /\ n_score = 0
    /\ initOK = FALSE
    /\ raised = FALSE
    /\ raisedPrev = FALSE
    /\ prevRows = <<0, 0>>
    /\ act_bound = ActBound

NoTensor == [shape |-> <<>>, data |-> <<>>]

ShapeIdle ==
    /\ tin = NoTensor
    /\ tprev = NoTensor
    /\ tout = NoTensor
    /\ ops = <<>>

NoArgs == [num_obs |-> 0, num_plans |-> 0, plan_hor |-> 0, batch_size |-> 0,
           cur_obs |-> <<>>, seed |-> 0, doneRule |-> "never"]

ScoreIdle ==
    /\ sargs = NoArgs
    /\ spc = "off"
    /\ dataset = [obs |-> <<>>, src |-> <<>>, plans |-> <<>>]
    /\ scores = <<>>
    /\ chunk = 0
    /\ step = 0
    /\ obs = <<>>
    /\ chunkPlans = <<>>
    /\ alives = <<>>
    /\ first = [rewards |-> <<>>, dones |-> <<>>]
    /\ result = <<>>

\* EarlyStopping(patience): nothing seen yet
EarlyStopping(patience) ==
    [patience |-> patience, has_best |-> FALSE, best |-> 0, counter |-> 0,
     early_stop |-> FALSE, snapshot |-> 0]

TrainIdle ==
    /\ targs = [n |-> 0, batches_per_epoch |-> 0, train_split |-> <<0, 1>>, metrics |-> {}]
    /\ tpc = "off"
    /\ train_idxs = <<>>
    /\ val_idxs = <<>>
    /\ epoch = 0
    /\ early_stopping = EarlyStopping(0)
    /\ params = 0
    /\ updBatches = <<>>
    /\ valBatches = <<>>
    /\ seen = [min |-> 0, k |-> 0]
    /\ out = [restored |-> 0, train_epochs |-> 0]

(***************************************************************************)
(* The controller's life cycle.                                            *)
(***************************************************************************)
Init == NoController /\ ShapeIdle /\ ScoreIdle /\ TrainIdle

Next ==
    \/ \E np \in 1..MaxPart, nn \in 1..MaxPart : MPC_init(np, nn)
    \/ \E in \in TrainInputs, f \in TrainInitialFails : train_initial(in, f)
    \/ \E in \in TrainInputs, f \in TrainIterationFails : train_iteration(in, f)
    \/ act

Spec == Init /\ [][Next]_vars

(***************************************************************************)
(* Tensors: a shape and the elements in row-major order, as torch stores a *)
(* contiguous tensor.                                                      *)
(***************************************************************************)
\* Tensor.view(shape): the same elements read under another shape
View(t, shape) == [shape |-> shape, data |-> t.data]

\* Tensor.transpose(0, 1).contiguous() of a 4-D tensor: element (j, i, k, l) of the
\* result is element (i, j, k, l) of t
Transpose01(t) ==
    LET A == t.shape[1]
        B == t.shape[2]
        C == t.shape[3]
        F == t.shape[4]
        src(q) == LET j == q \div (A * C * F)
                      i == (q \div (C * F)) % A
                      k == (q \div F) % C
                      l == q % F
                  IN  ((i * B + j) * C + k) * F + l
    IN  [shape |-> <<B, A, C, F>>,
         data |-> [q \in 1..Len(t.data) |-> t.data[src(q - 1) + 1]]]

(***************************************************************************)
(* MPC._to_bootstrap_shape, MPC._from_bootstrap_shape                      *)
(***************************************************************************)
to_bootstrap_shape_view_only(input) ==
    LET num_features == input.shape[2]
    IN  View(input, <<num_nets, Len(input.data) \div (num_nets * num_features), num_features>>)

to_bootstrap_shape(input) ==
    LET num_features == input.shape[2]
        share == num_part \div num_nets
        \* view(-1, num_nets, num_part // num_nets, num_features)
        x == Len(input.data) \div (num_nets * share * num_features)
        reshaped == View(input, <<x, num_nets, share, num_features>>)
    IN  \* transpose(0, 1).contiguous().view(num_nets, -1, num_features)
        View(Transpose01(reshaped), <<num_nets, x * share, num_features>>)

from_bootstrap_shape_view_only(input) ==
    View(input, <<input.shape[1] * input.shape[2], input.shape[3]>>)

from_bootstrap_shape(input) ==
    LET num_features == input.shape[3]
        share == num_part \div num_nets
        \* view(num_nets, -1, num_part // num_nets, num_features)
        x == Len(input.data) \div (num_nets * share * num_features)
        reshaped == View(input, <<num_nets, x, share, num_features>>)
    IN  \* transpose(0, 1).contiguous().view(-1, num_features)
        View(Transpose01(reshaped), <<x * num_nets * share, num_features>>)

\* the elements of the tensors the reshapes are tried on: all distinct, or repeating
Fills == {"index", "mod3"}
Fill(kind, n) == [i \in 1..n |-> IF kind = "index" THEN i ELSE i % 3]

\* a 2-D input whose leading dimension is a multiple of num_part
FlatInput(np, x, f, kind) == [shape |-> <<x * np, f>>, data |-> Fill(kind, x * np * f)]

\* a member-first input of shape (num_nets, x * num_part / num_nets, f)
MemberInput(np, nn, x, f, kind) ==
    [shape |-> <<nn, x * (np \div nn), f>>, data |-> Fill(kind, x * np * f)]

apply_to ==
    /\ Len(ops) < MaxShapeOps
    /\ Len(tout.shape) = 2
    /\ tprev' = tout
    /\ tout' = to_bootstrap_shape(tout)
    /\ ops' = Append(ops, "to")
    /\ UNCHANGED <<tin>>
    /\ UNCHANGED nonShape

apply_from ==
    /\ Len(ops) < MaxShapeOps
    /\ Len(tout.shape) = 3
    /\ tprev' = tout
    /\ tout' = from_bootstrap_shape(tout)
    /\ ops' = Append(ops, "from")
    /\ UNCHANGED <<tin>>
    /\ UNCHANGED nonShape

InitShape ==
    /\ \E np \in 1..MaxShapePart, nn \in 1..MaxShapePart : Constructed(np, nn)
    /\ \E x \in 1..MaxGroups, f \in 1..MaxFeat, kind \in Fills :
          \/ tin = FlatInput(num_part, x, f, kind)
          \/ tin = MemberInput(num_part, num_nets, x, f, kind)
    /\ tprev = tin
    /\ tout = tin
    /\ ops = <<>>
    /\ ScoreIdle
    /\ TrainIdle

NextShape == apply_to \/ apply_from

SpecShape == InitShape /\ [][NextShape]_vars

(***************************************************************************)
(* The task's hooks and the ensemble, for a task with one observation      *)
(* feature and one action feature.                                         *)
(***************************************************************************)
RECURSIVE SumSeq(_)
SumSeq(s) == IF s = <<>> THEN 0 ELSE s[1] + SumSeq(Tail(s))

\* obs_preproc: the observation is its own feature
obs_preproc(o) == o

\* pred_postproc(obs, pred) = obs + pred
pred_postproc(o, pred) == o + pred

DoneRules == {"never", "always", "high"}
\* observation from which the "high" rule ends the episode
DoneAt == 2

\* get_reward(obs, act, next_obs): the reward is the observation reached
get_reward(rule, o, a, next_o) ==
    [reward |-> next_o,
     done |-> IF rule = "always" \/ (rule = "high" /\ next_o >= DoneAt) THEN 1 ELSE 0]

\* one member's prediction for one input row <<observation feature, action>>: members
\* disagree by their index
SampleMember(m, row) == row[2] + (m - 1)

\* BootstrapEnsemble.sample(input): input and output are member-first, one prediction
\* per member per row
sample(input) ==
    LET rows == input.shape[2]
        f == input.shape[3]
        row(q) == [l \in 1..f |-> input.data[(q - 1) * f + l]]
    IN  [shape |-> <<input.shape[1], rows, 1>>,
         data |-> [q \in 1..(input.shape[1] * rows) |->
                      SampleMember(((q - 1) \div rows) + 1, row(q))]]

(***************************************************************************)
(* MPC._predict_next_obs_divide                                            *)
(***************************************************************************)
predict_next_obs_divide(o, acts) ==
    LET n == Len(o)
        \* torch.cat((proc_obs, acts), dim=-1): rows of two features
        cat == [shape |-> <<n, 2>>,
                data |-> [q \in 1..(2 * n) |->
                             IF q % 2 = 1 THEN obs_preproc(o[(q + 1) \div 2])
                             ELSE acts[q \div 2]]]
        preds == from_bootstrap_shape(sample(to_bootstrap_shape(cat)))
    IN  [r \in 1..n |-> pred_postproc(o[r], preds.data[r])]

(***************************************************************************)
(* MPC._compile_score                                                      *)
(***************************************************************************)
ObsValues == {0, 1}
PlanSeeds == {0, 1}

\* the action of plan p for observation o at step tt (all 1-based), within the bounds
PlanAction(seed, o, p, tt) == ((seed + 2 * o + p + tt) % 3) - 1

\* plans[o][p]: the plan_hor actions of candidate (o, p)
Plan(o, p) == [tt \in 1..sargs.plan_hor |-> PlanAction(sargs.seed, o, p, tt)]

\* the candidate (o, p) and particle j a flat row r belongs to (all 1-based)
RowObs(r) == ((r - 1) \div (sargs.num_plans * num_part)) + 1
RowPlan(r) == (((r - 1) \div num_part) % sargs.num_plans) + 1
RowPart(r) == ((r - 1) % num_part) + 1
FlatRow(o, p, j) == ((o - 1) * sargs.num_plans + (p - 1)) * num_part + j

\* plans.view(...).unsqueeze(2).expand(-1, -1, num_part, -1, -1).contiguous().view(-1, ...)
ExpandPlans == [r \in 1..(sargs.num_obs * sargs.num_plans * num_part) |-> Plan(RowObs(r), RowPlan(r))]

\* Tensor.repeat(n, 1): the whole tensor n times over, one copy after the other
Repeat(rows, n) == [r \in 1..(Len(rows) * n) |-> rows[((r - 1) % Len(rows)) + 1]]

\* math.ceil(len(dataset) / batch_size)
NumBatches == (Len(scores) + sargs.batch_size - 1) \div sargs.batch_size

\* dataset[i * batch_size:(i+1) * batch_size]: the flat rows of chunk i
ChunkLo == chunk * sargs.batch_size
ChunkHi == IF (chunk + 1) * sargs.batch_size < Len(scores) THEN (chunk + 1) * sargs.batch_size
           ELSE Len(scores)

\* lines 275-294
compile_score_begin ==
    /\ spc = "begin"
    /\ sargs.batch_size % num_part = 0
    /\ dataset' = [obs |-> Repeat(sargs.cur_obs, sargs.num_plans * num_part),
                   src |-> Repeat([o \in 1..sargs.num_obs |-> o], sargs.num_plans * num_part),
                   plans |-> ExpandPlans]
    /\ scores' = [r \in 1..(sargs.num_obs * sargs.num_plans * num_part) |-> 0]
    /\ first' = [rewards |-> [r \in 1..(sargs.num_obs * sargs.num_plans * num_part) |-> 0],
                 dones |-> [r \in 1..(sargs.num_obs * sargs.num_plans * num_part) |-> 0]]
    /\ chunk' = 0
    /\ spc' = "chunk"
    /\ UNCHANGED <<sargs, step, obs, chunkPlans, alives, result>>
    /\ UNCHANGED nonScore

\* lines 298-301
chunk_begin ==
    /\ spc = "chunk"
    /\ obs' = SubSeq(dataset.obs, ChunkLo + 1, ChunkHi)
    /\ chunkPlans' = SubSeq(dataset.plans, ChunkLo + 1, ChunkHi)
    /\ alives' = [r \in 1..(ChunkHi - ChunkLo) |-> 1]
    /\ step' = 0
    /\ spc' = "step"
    /\ UNCHANGED <<sargs, dataset, scores, chunk, first, result>>
    /\ UNCHANGED nonScore

AccumulateThenMask(alive, done) == alive

\* lines 315-316: alives = torch.min(alives, 1 - dones), then scores += alives * rewards:
\* the factor a row's reward is accumulated with
Accumulated(alive, done) == Min(alive, 1 - done)

BreakAnyDead(al) == \E r \in 1..Len(al) : al[r] = 0

\* line 319: alives.sum() == 0
Break(al) == SumSeq(al) = 0

\* lines 304-320: one pass of the horizon loop
horizon_step ==
    LET n == Len(obs)
        acts == [r \in 1..n |-> chunkPlans[r][step + 1]]
        next_obs == predict_next_obs_divide(obs, acts)
        rd == [r \in 1..n |-> get_reward(sargs.doneRule, obs[r], acts[r], next_obs[r])]
        newAlives == [r \in 1..n |-> Min(alives[r], 1 - rd[r].done)]
        last == Break(newAlives) \/ (step + 1 = sargs.plan_hor)
    IN  /\ spc = "step"
        /\ alives' = newAlives
        /\ scores' = [r \in 1..Len(scores) |->
                         IF r > ChunkLo /\ r <= ChunkHi
                         THEN scores[r] + Accumulated(alives[r - ChunkLo], rd[r - ChunkLo].done)
                                          * rd[r - ChunkLo].reward
                         ELSE scores[r]]
        /\ first' = IF step = 0
                    THEN [rewards |-> [r \in 1..Len(scores) |->
                                          IF r > ChunkLo /\ r <= ChunkHi
                                          THEN rd[r - ChunkLo].reward ELSE first.rewards[r]],
                          dones |-> [r \in 1..Len(scores) |->
                                          IF r > ChunkLo /\ r <= ChunkHi
                                          THEN rd[r - ChunkLo].done ELSE first.dones[r]]]
                    ELSE first
        /\ obs' = next_obs
        /\ IF last
           THEN /\ chunk' = chunk + 1
                /\ step' = step
                /\ spc' = IF chunk + 1 < NumBatches THEN "chunk" ELSE "finish"
           ELSE /\ step' = step + 1
                /\ UNCHANGED <<chunk, spc>>
        /\ UNCHANGED <<sargs, dataset, chunkPlans, result>>
        /\ UNCHANGED nonScore

\* scores.mean(dim=-1) of one candidate: the sum over its particles and their number
Mean(s) == [sum |-> SumSeq(s), n |-> Len(s)]

\* lines 322-332: scores.view(num_obs, num_plans, num_part).mean(dim=-1)
compile_score_end ==
    /\ spc = "finish"
    /\ result' = [o \in 1..sargs.num_obs |-> [p \in 1..sargs.num_plans |->
                     Mean(SubSeq(scores, FlatRow(o, p, 1), FlatRow(o, p, num_part)))]]
    /\ spc' = "done"
    /\ UNCHANGED <<sargs, dataset, scores, chunk, step, obs, chunkPlans, alives, first>>
    /\ UNCHANGED nonScore

InitScore ==
    /\ \E np \in 1..MaxScorePart, nn \in 1..MaxScorePart : Constructed(np, nn)
    /\ ShapeIdle
    /\ TrainIdle
    /\ \E no \in 1..MaxObs, npl \in 1..MaxCand, h \in 1..MaxHor, g \in 1..MaxChunkGroups,
          sd \in PlanSeeds, rule \in DoneRules :
          \E co \in [1..no -> ObsValues] :
              /\ no * npl <= MaxCandidates
              /\ no * npl * num_part * h <= MaxPlanActions
              /\ sargs = [num_obs |-> no, num_plans |-> npl, plan_hor |-> h,
                          batch_size |-> g * num_part, cur_obs |-> co, seed |-> sd,
                          doneRule |-> rule]
    /\ spc = "begin"
    /\ dataset = [obs |-> <<>>, src |-> <<>>, plans |-> <<>>]
    /\ scores = <<>>
    /\ chunk = 0
    /\ step = 0
    /\ obs = <<>>
    /\ chunkPlans = <<>>
    /\ alives = <<>>
    /\ first = [rewards |-> <<>>, dones |-> <<>>]
    /\ result = <<>>

NextScore == compile_score_begin \/ chunk_begin \/ horizon_step \/ compile_score_end

SpecScore == InitScore /\ [][NextScore]_vars

(***************************************************************************)
(* EarlyStopping (utils): the best validation metric so far, the epochs    *)
(* since it improved, and a snapshot of the best parameters.               *)
(***************************************************************************)
\* early_stopping.step(metric, net, info)
ES_step(es, metric, net) ==
    IF ~es.has_best \/ metric < es.best
    THEN [es EXCEPT !.has_best = TRUE, !.best = metric, !.counter = 0, !.snapshot = net]
    ELSE [es EXCEPT !.counter = es.counter + 1,
                    !.early_stop = (es.counter + 1 >= es.patience)]

\* early_stopping.load_best(net): the parameters put back into the model
ES_load_best(es) == es.snapshot

(***************************************************************************)
(* MPC.train_initial, lines 97-154: the bootstrap split and the training   *)
(* loop.                                                                   *)
(***************************************************************************)
\* torch.randperm(n): the permutations of 1..n
Perms(n) == {f \in [1..n -> 1..n] : \A a, b \in 1..n : f[a] = f[b] => a = b}

\* s[lo:hi] of Python, for 0 <= lo <= hi
Slice(s, lo, hi) == SubSeq(s, Min(lo, Len(s)) + 1, Min(hi, Len(s)))

\* int(train_split * x) for train_split = num / den
Split(r, x) == (r[1] * x) \div r[2]

\* the values of train_split tried, all inside (0, 1)
Splits == {<<1, 2>>, <<4, 5>>}

TrainSize == Split(targs.train_split, targs.n)
ValSize == targs.n - TrainSize
BatchSize == targs.n \div targs.batches_per_epoch
TrainBatches == Split(targs.train_split, targs.batches_per_epoch)
ValBatches == targs.batches_per_epoch - TrainBatches

TrainPartAll(idx, train_size) == idx

\* line 103: i[:train_size]
TrainPart(idx, train_size) == Slice(idx, 0, train_size)

\* line 104: i[train_size:]
ValPart(idx, train_size) == Slice(idx, train_size, Len(idx))

\* lines 97-110
train_begin ==
    /\ tpc = "begin"
    /\ \E idxs \in [1..num_nets -> Perms(targs.n)] :
          /\ train_idxs' = [m \in 1..num_nets |-> TrainPart(idxs[m], TrainSize)]
          /\ val_idxs' = [m \in 1..num_nets |-> ValPart(idxs[m], TrainSize)]
    /\ early_stopping' = EarlyStopping(Patience)
    /\ epoch' = 0
    /\ tpc' = "loop"
    /\ UNCHANGED <<targs, params, updBatches, valBatches, seen, out>>
    /\ UNCHANGED nonTrain

\* idxs[:, perm]: every member's row reordered by the same column permutation
Columns(idxs, perm) == [m \in 1..num_nets |-> [q \in 1..Len(perm) |-> idxs[m][perm[q]]]]

\* idxs_epoch[:, b*batch_size:(b+1)*batch_size], b counted from 0
Minibatch(idxs_epoch, b) ==
    [m \in 1..num_nets |-> Slice(idxs_epoch[m], b * BatchSize, (b + 1) * BatchSize)]

LoopContinuesAlways(es) == TRUE

\* line 115: while not early_stopping.early_stop
LoopContinues(es) == ~es.early_stop

\* line 115: while not early_stopping.early_stop, lines 116-147: one epoch
train_epoch ==
    /\ tpc = "loop"
    /\ LoopContinues(early_stopping)
    /\ epoch < MaxEpochs
    /\ epoch' = epoch + 1
    /\ \E tp \in Perms(TrainSize), vp \in Perms(ValSize) :
          /\ updBatches' = [b \in 1..TrainBatches |-> Minibatch(Columns(train_idxs, tp), b - 1)]
          /\ valBatches' = [b \in 1..ValBatches |-> Minibatch(Columns(val_idxs, vp), b - 1)]
    \* the updates of this epoch give the parameters of this epoch
    /\ params' = epoch + 1
    /\ \E metric \in targs.metrics :
          /\ early_stopping' = ES_step(early_stopping, metric, epoch + 1)
          /\ seen' = IF epoch = 0 \/ metric < seen.min
                     THEN [min |-> metric, k |-> epoch + 1]
                     ELSE seen
    /\ UNCHANGED <<targs, tpc, train_idxs, val_idxs, out>>
    /\ UNCHANGED nonTrain

\* line 115: the loop ends once early_stopping.early_stop is set
train_loop_exit ==
    /\ tpc = "loop"
    /\ ~LoopContinues(early_stopping)
    /\ tpc' = "end"
    /\ UNCHANGED <<targs, train_idxs, val_idxs, epoch, early_stopping, params,
                   updBatches, valBatches, seen, out>>
    /\ UNCHANGED nonTrain

TrainEpochsRun(ep, patience) == ep

\* line 152: info_best['metrics']['time/train_epochs'] = epoch - early_stopping.patience
TrainEpochs(ep, patience) == ep - patience

\* lines 150-154
train_end ==
    /\ tpc = "end"
    /\ params' = ES_load_best(early_stopping)
    /\ out' = [restored |-> ES_load_best(early_stopping),
               train_epochs |-> TrainEpochs(epoch, early_stopping.patience)]
    /\ tpc' = "done"
    /\ UNCHANGED <<targs, train_idxs, val_idxs, epoch, early_stopping,
                   updBatches, valBatches, seen>>
    /\ UNCHANGED nonTrain

\* a train_initial call that has reached line 97 on a dataset of n rows
TrainingStarts(n, bpe, split, metrics) ==
    /\ targs = [n |-> n, batches_per_epoch |-> bpe, train_split |-> split, metrics |-> metrics]
    /\ tpc = "begin"
    /\ train_idxs = <<>>
    /\ val_idxs = <<>>
    /\ epoch = 0
    /\ early_stopping = EarlyStopping(0)
    /\ params = 0
    /\ updBatches = <<>>
    /\ valBatches = <<>>
    /\ seen = [min |-> 0, k |-> 0]
    /\ out = [restored |-> 0, train_epochs |-> 0]

\* every dataset size, batch count, split and ensemble size with one course of the
\* validation metric, and every course of the validation metric on one dataset
InitTrain ==
    /\ \E nn \in 1..MaxTrainNets : Constructed(nn, nn)
    /\ ShapeIdle
    /\ ScoreIdle
    /\ \/ \E n \in 1..MaxData, bpe \in 1..MaxBatches, split \in Splits :
             /\ num_nets * n <= MaxIdxCells
             /\ TrainingStarts(n, bpe, split, {0})
       \/ /\ num_nets = 1
          /\ TrainingStarts(2, 2, <<1, 2>>, 0..MaxMetric)

NextTrain == train_begin \/ train_epoch \/ train_loop_exit \/ train_end

SpecTrain == InitTrain /\ [][NextTrain]_vars

\* train_initial is one synchronous call: a step that can be taken is taken
SpecTrainLive == InitTrain /\ [][NextTrain]_vars /\ WF_vars(NextTrain)

(***************************************************************************)
(* Claims about the controller's life cycle, checked under Spec.           *)
(***************************************************************************)
TrainOps == {"train_initial", "train_iteration"}

\* C2: the controller is Trained only after a train_initial call that completed
\* successfully; after a failed train_initial it is still Untrained and act does not plan.
C2_TrainedOnlyBySuccess ==
    /\ has_been_trained => initOK
    /\ (op = "act" /\ ret.planned) => initOK

C7_ConstructionChecked ==
    /\ phase = "ready" => (num_part % num_nets = 0 /\ optimizer /\ model)
    /\ (phase # "none" /\ num_part % num_nets # 0) => phase = "failed"
    /\ phase = "failed" =>
          /\ ~optimizer /\ ~model
          /\ nTrain = 0 /\ n_obtain = 0 /\ n_score = 0 /\ modelVer = 0
          /\ ~has_been_trained /\ ~hasData /\ op = "init" /\ ~ret.ok

C7_Witness == phase = "failed" /\ num_part % num_nets # 0 /\ ~optimizer /\ ~model

\* C8: on an Untrained controller every act returns an action within
\* [-act_bound, act_bound] and empty info, invokes neither obtain_solution nor
\* _compile_score nor the ensemble, and leaves the model, the dataset, the stats and
\* the trained flag unchanged.
C8_UntrainedActNoPlanning ==
    [][(op' = "act" /\ ~has_been_trained) =>
          /\ ret'.ok /\ ret'.info = "empty" /\ ~ret'.planned
          /\ ret'.action >= 0 - act_bound /\ ret'.action <= act_bound
          /\ n_obtain' = n_obtain /\ n_score' = n_score /\ calls' = <<>>
          /\ UNCHANGED <<modelVer, hasData, X, Y, stats, has_been_trained>>]_vars

C8_Witness ==
    /\ op = "act" /\ ~has_been_trained /\ ret.info = "empty"
    /\ ret.action = act_bound /\ n_obtain = 0 /\ calls = <<>>

\* C14: train_iteration leaves has_been_trained as it is, and on a controller on which
\* train_initial was never called (has_been_trained is still False: line 89 sets it
\* on entry) it raises with no dataset created and without fit_input_stats,
\* evaluate_test or update being called
C14_IterationBeforeInitialFails ==
    [][(op' = "train_iteration" /\ nTrain' # nTrain) =>
          /\ has_been_trained' = has_been_trained
          /\ ~has_been_trained =>
                /\ ~ret'.ok
                /\ ~hasData' /\ X' = <<>> /\ Y' = <<>>
                /\ stats' = NoStats
                /\ calls' = <<>>
                /\ modelVer' = modelVer]_vars

\* an act that returned a random action after a train_iteration call on a controller
\* on which train_initial was never called
C14_Witness ==
    /\ op = "act" /\ ~has_been_trained /\ nTrain >= 1
    /\ ret.ok /\ ~ret.planned
    /\ raised /\ ~hasData /\ X = <<>> /\ stats = NoStats

(***************************************************************************)
(* Claims about the bootstrap reshapes, checked under SpecShape.           *)
(***************************************************************************)
\* C9: _to_bootstrap_shape and _from_bootstrap_shape are mutual inverses: applying
\* one and then the other gives back the tensor given, shape and elements, for a 2-D
\* input whose leading dimension is a multiple of num_part and for a member-first
\* input of shape (num_nets, x * num_part / num_nets, f); in between the tensor has
\* the other layout.
C9_ReshapesInverse ==
    /\ Len(ops) % 2 = 0 => tout = tin
    /\ Len(ops) % 2 = 1 =>
          /\ tout.shape # tin.shape
          /\ Len(tout.shape) = 5 - Len(tin.shape)
          /\ Len(tout.data) = Len(tin.data)
          /\ Len(tout.shape) = 3 => tout.shape[1] = num_nets

\* a round trip that moves elements: several members, several particles per member,
\* several groups
C9_Witness ==
    /\ ops = <<"to", "from">>
    /\ tout = tin
    /\ tprev.data # tin.data
    /\ num_nets > 1 /\ num_part > num_nets

(***************************************************************************)
(* Claims about _compile_score, checked under SpecScore.                   *)
(***************************************************************************)
\* the member that propagates particle j of a candidate under the divide policy
MemberOfParticle(j) == ((j - 1) \div (num_part \div num_nets)) + 1

\* score of one rollout from observation o0 along plan pl, propagated by member m
RECURSIVE RolloutScore(_, _, _, _, _)
RolloutScore(o0, alive, pl, m, tt) ==
    IF tt > Len(pl) THEN 0
    ELSE LET a == pl[tt]
             next == pred_postproc(o0, SampleMember(m, <<obs_preproc(o0), a>>))
             rd == get_reward(sargs.doneRule, o0, a, next)
             al == Min(alive, 1 - rd.done)
         IN  al * rd.reward + RolloutScore(next, al, pl, m, tt + 1)

\* the rollout of particle j of candidate (o, p): from cur_obs[o] along plans[o][p]
CandidateScore(o, p, j) ==
    RolloutScore(sargs.cur_obs[o], 1, Plan(o, p), MemberOfParticle(j), 1)

\* C1: the matrix returned holds, for every observation o and plan p, the mean over
\* the num_part particles of the scores of rollouts that start at cur_obs[o] and
\* follow plans[o][p]; every flat row of candidate (o, p) is paired with observation o.
C1_ScoresPairObsWithPlans ==
    spc = "done" =>
        /\ \A r \in 1..Len(scores) : dataset.src[r] = RowObs(r)
        /\ \A o \in 1..sargs.num_obs, p \in 1..sargs.num_plans :
              result[o][p] = Mean([j \in 1..num_part |-> CandidateScore(o, p, j)])

\* C5: when the reward hook returns done = 1 for every particle on the first rollout
\* step, the score returned for every candidate is the first step's reward averaged
\* over the candidate's particles.
C5_FirstStepDoneKeepsFirstReward ==
    (spc = "done" /\ \A r \in 1..Len(scores) : first.dones[r] = 1) =>
        \A o \in 1..sargs.num_obs, p \in 1..sargs.num_plans :
            result[o][p] = Mean([j \in 1..num_part |-> first.rewards[FlatRow(o, p, j)]])

\* the horizon loop of lines 303-317 on one chunk, from step tt on, run over the whole
\* horizon: the scores of the chunk's rows
RECURSIVE FullHorizon(_, _, _, _, _)
FullHorizon(o, al, sc, pl, tt) ==
    IF tt > sargs.plan_hor THEN sc
    ELSE LET n == Len(o)
             acts == [r \in 1..n |-> pl[r][tt]]
             next_obs == predict_next_obs_divide(o, acts)
             rd == [r \in 1..n |-> get_reward(sargs.doneRule, o[r], acts[r], next_obs[r])]
         IN  FullHorizon(next_obs,
                         [r \in 1..n |-> Min(al[r], 1 - rd[r].done)],
                         [r \in 1..n |-> sc[r] + Accumulated(al[r], rd[r].done) * rd[r].reward],
                         pl, tt + 1)

\* the scores of the rows of chunk c (counted from 0) when its loop never breaks
FullHorizonChunk(c) ==
    LET lo == c * sargs.batch_size
        hi == Min((c + 1) * sargs.batch_size, Len(scores))
    IN  FullHorizon(SubSeq(dataset.obs, lo + 1, hi), [r \in 1..(hi - lo) |-> 1],
                    [r \in 1..(hi - lo) |-> 0], SubSeq(dataset.plans, lo + 1, hi), 1)

\* the scores of the chunks that are finished are those of the full horizon
C11_ScoresAsFullHorizon ==
    spc \in {"chunk", "finish", "done"} =>
        \A c \in 0..(chunk - 1) :
            SubSeq(scores, c * sargs.batch_size + 1,
                   Min((c + 1) * sargs.batch_size, Len(scores))) = FullHorizonChunk(c)

\* within a chunk no alive flag rises, and the score of a row whose flag is 0 stays
C11_DeadStaysDead ==
    (spc = "step" /\ step > 0) =>
        /\ \A r \in 1..Len(alives) : alives'[r] <= alives[r]
        /\ \A r \in 1..Len(alives) : alives[r] = 0 => scores'[ChunkLo + r] = scores[ChunkLo + r]

\* C11: the alive flag of a particle never rises during its rollout, the score of a
\* particle whose flag is 0 is not changed again, and the scores computed with the
\* break at lines 319-320 are those of the loop run over the whole horizon
C11_EarlyExitOnlyOptimization ==
    /\ []C11_ScoresAsFullHorizon
    /\ [][C11_DeadStaysDead]_vars

\* a call that left the horizon loop of its last chunk early, after a step that scored
C11_Witness ==
    /\ spc = "done"
    /\ step + 1 < sargs.plan_hor
    /\ \E r \in 1..Len(scores) : r > (chunk - 1) * sargs.batch_size /\ scores[r] # 0
    /\ NumBatches > 1

\* _predict_next_obs_divide on n rows with an ensemble that reports, instead of a
\* prediction, the member that computed it and the flat row whose input it was given
DivideTrace(n) ==
    LET input == to_bootstrap_shape([shape |-> <<n, 1>>, data |-> [r \in 1..n |-> r]])
        rows == input.shape[2]
        preds == [shape |-> input.shape,
                  data |-> [q \in 1..Len(input.data) |->
                               [member |-> ((q - 1) \div rows) + 1, row |-> input.data[q]]]]
    IN  from_bootstrap_shape(preds).data

\* the rows of the current chunk by member and by row, and the members' shares of
\* every plan of the chunk
C12_ChunkDivided ==
    spc = "step" =>
        LET tr == DivideTrace(Len(obs))
        IN  /\ \A r \in 1..Len(obs) :
                  /\ tr[r].member = MemberOfParticle(RowPart(ChunkLo + r))
                  /\ tr[r].row = r
            /\ \A g \in 0..((Len(obs) \div num_part) - 1), m \in 1..num_nets :
                  Cardinality({j \in 1..num_part : tr[g * num_part + j].member = m})
                      = num_part \div num_nets

\* every horizon step gives row r the prediction of its member for its own input
C12_StepByOwnMember ==
    spc = "step" =>
        \A r \in 1..Len(obs) :
            obs'[r] = pred_postproc(obs[r],
                          SampleMember(MemberOfParticle(RowPart(ChunkLo + r)),
                                       <<obs_preproc(obs[r]), chunkPlans[r][step + 1]>>))

\* C12: in every chunk, at every horizon step and for every plan, particle j (from 0)
\* is predicted by member floor(j / (num_part / num_nets)), the prediction returned
\* for a flat row is computed from that row's input, and every member handles
\* num_part / num_nets particles of each plan
C12_DividePolicy ==
    /\ []C12_ChunkDivided
    /\ [][C12_StepByOwnMember]_vars

\* a later step of a shorter last chunk that follows a chunk of several plans, for
\* members that each have several particles of a plan
C12_Witness ==
    /\ spc = "step"
    /\ step >= 1
    /\ num_nets >= 2
    /\ num_part \div num_nets >= 2
    /\ chunk >= 1
    /\ chunk = NumBatches - 1
    /\ Len(obs) < sargs.batch_size
    /\ sargs.batch_size >= 2 * num_part

(***************************************************************************)
(* Claims about the training loop of train_initial.                        *)
(***************************************************************************)
\* the elements of a sequence
Range(q) == {q[c] : c \in 1..Len(q)}

\* the indices member m received in the minibatches bs, in the order received
RECURSIVE Received(_, _)
Received(bs, m) ==
    IF bs = <<>> THEN <<>> ELSE bs[1][m] \o Received(Tail(bs), m)

\* no element twice
NoRepeats(q) == \A c, d \in 1..Len(q) : q[c] = q[d] => c = d

\* C6: when the validation metric last improved at epoch k, the loop runs up to
\* epoch k + patience and no further, the parameters put back into the model are
\* the snapshot of epoch k, and 'time/train_epochs' is k
C6_EarlyStoppingAtKPlusPatience ==
    /\ (tpc = "loop" /\ epoch >= 1) =>
          /\ epoch <= seen.k + Patience
          /\ early_stopping.early_stop = (epoch = seen.k + Patience)
          /\ early_stopping.snapshot = seen.k
    /\ tpc \in {"end", "done"} => epoch = seen.k + Patience
    /\ tpc = "done" =>
          /\ params = seen.k
          /\ out.restored = seen.k
          /\ out.train_epochs = seen.k

\* a call that returned after a metric which improved beyond the first epoch
C6_Witness ==
    /\ tpc = "done"
    /\ seen.k > 1
    /\ epoch = seen.k + Patience
    /\ out.train_epochs = seen.k

\* the state of C10 in one epoch
C10_EpochPartitioned ==
    tpc \in {"loop", "end", "done"} =>
        \A m \in 1..num_nets :
            /\ Range(train_idxs[m]) \cap Range(val_idxs[m]) = {}
            /\ Range(Received(updBatches, m)) \subseteq Range(train_idxs[m])
            /\ NoRepeats(Received(updBatches, m))
            /\ Range(Received(valBatches, m)) \subseteq Range(val_idxs[m])
            /\ Range(Received(updBatches, m)) \cap Range(val_idxs[m]) = {}

\* C10: in every epoch each update minibatch of member m holds only indices of m's
\* training partition, each at most once per epoch, each evaluate_val minibatch of m
\* only indices of m's validation partition, the two partitions are disjoint, and
\* they stay the same for the whole call
C10_MinibatchesWithinPartitions ==
    /\ []C10_EpochPartitioned
    /\ [][tpc # "begin" => (train_idxs' = train_idxs /\ val_idxs' = val_idxs)]_vars

\* an epoch of a two-member ensemble with two update minibatches and a validation
\* minibatch, none of them empty, the members' partitions being different
C10_Witness ==
    /\ tpc = "loop"
    /\ epoch >= 2
    /\ num_nets >= 2
    /\ Len(updBatches) >= 2
    /\ updBatches[1][1] # <<>>
    /\ updBatches[2][2] # <<>>
    /\ Len(valBatches) >= 1
    /\ valBatches[1][1] # <<>>
    /\ Range(train_idxs[1]) # Range(train_idxs[2])

====
